---- MODULE Spec2Model ----
(***************************************************************************)
(* docker-fs: the container filesystem adapter.                            *)
(*                                                                         *)
(* State machine of lib/dockerfs: the snapshot index built from the        *)
(* export (staticFiles), the changes cache guarded by changesMutex         *)
(* (changes, changesUpdated), the inode table, and the FUSE handlers of    *)
(* Dir (Lookup, Create, Readdir) running as concurrent request threads.    *)
(*                                                                         *)
(* Strings are sequences of one-character strings, so that the path        *)
(* functions of path/filepath and strings are computed, not assumed.       *)
(* File modes are sets of bit positions (bit 31 does not fit a TLC         *)
(* integer): m & mask is set intersection.                                 *)
(***************************************************************************)
EXTENDS Integers, Sequences, FiniteSets, TLC

(***************************************************************************)
(* Strings and path/filepath                                               *)
(***************************************************************************)
SEP == "/"

\* strings.HasPrefix(s, prefix)
HasPrefix(s, prefix) ==
    /\ Len(prefix) <= Len(s)
    /\ SubSeq(s, 1, Len(prefix)) = prefix

\* strings.HasSuffix(s, suffix)
HasSuffix(s, suffix) ==
    /\ Len(suffix) <= Len(s)
    /\ SubSeq(s, Len(s) - Len(suffix) + 1, Len(s)) = suffix

\* strings.Index(s, "/"): 0-based index of the first separator, -1 if none
IndexSep(s) ==
    IF \E i \in 1..Len(s) : s[i] = SEP
    THEN (CHOOSE i \in 1..Len(s) : s[i] = SEP /\ \A j \in 1..(i-1) : s[j] # SEP) - 1
    ELSE -1

\* strings.LastIndex(s, "/"): 0-based index of the last separator, -1 if none
LastIndexSep(s) ==
    IF \E i \in 1..Len(s) : s[i] = SEP
    THEN (CHOOSE i \in 1..Len(s) : s[i] = SEP /\ \A j \in (i+1)..Len(s) : s[j] # SEP) - 1
    ELSE -1

\* the elements of s between separators, empty ones included
RECURSIVE Elems(_)
Elems(s) ==
    LET i == IndexSep(s) IN
    IF i < 0 THEN <<s>>
    ELSE <<SubSeq(s, 1, i)>> \o Elems(SubSeq(s, i + 2, Len(s)))

\* one element of filepath.Clean's scan: "" and "." are dropped, ".." backs
\* up over the last element (dropped at the root, kept on a relative path)
CleanStep(acc, e, rooted) ==
    IF e = <<>> \/ e = <<".">> THEN acc
    ELSE IF e = <<".", ".">>
         THEN IF Len(acc) > 0 /\ acc[Len(acc)] # <<".", ".">>
              THEN SubSeq(acc, 1, Len(acc) - 1)
              ELSE IF rooted THEN acc ELSE Append(acc, e)
         ELSE Append(acc, e)

RECURSIVE CleanFold(_, _, _)
CleanFold(acc, es, rooted) ==
    IF es = <<>> THEN acc
    ELSE CleanFold(CleanStep(acc, Head(es), rooted), Tail(es), rooted)

RECURSIVE JoinSep(_)
JoinSep(es) ==
    IF es = <<>> THEN <<>>
    ELSE IF Len(es) = 1 THEN es[1]
    ELSE es[1] \o <<SEP>> \o JoinSep(Tail(es))

\* filepath.Clean (unix): the shortest lexically equivalent path
Clean(p) ==
    IF p = <<>> THEN <<".">>
    ELSE LET rooted == p[1] = SEP
             body   == JoinSep(CleanFold(<<>>, Elems(p), rooted))
             out    == IF rooted THEN <<SEP>> \o body ELSE body
         IN  IF out = <<>> THEN <<".">> ELSE out

\* filepath.Dir: all but the last element, cleaned
Dir(p) == Clean(SubSeq(p, 1, LastIndexSep(p) + 1))

\* s without its trailing separators
RECURSIVE StripTrailingSep(_)
StripTrailingSep(s) ==
    IF Len(s) > 0 /\ s[Len(s)] = SEP
    THEN StripTrailingSep(SubSeq(s, 1, Len(s) - 1))
    ELSE s

\* filepath.Base: the last element of the path
Base(p) ==
    IF p = <<>> THEN <<".">>
    ELSE LET s == StripTrailingSep(p)
             t == SubSeq(s, LastIndexSep(s) + 2, Len(s))
         IN  IF t = <<>> THEN <<SEP>> ELSE t

\* filepath.Join(a, b): the non-empty elements joined by a separator, cleaned
Join(a, b) ==
    IF a = <<>> /\ b = <<>> THEN <<>>
    ELSE IF a = <<>> THEN Clean(b)
    ELSE IF b = <<>> THEN Clean(a)
    ELSE Clean(a \o <<SEP>> \o b)

(***************************************************************************)
(* File modes: sets of bit positions                                       *)
(***************************************************************************)
\* os.ModeDir = 1 << 31, os.ModeSymlink = 1 << 27
ModeDir     == {31}
ModeSymlink == {27}
\* fuse.S_IFDIR = 0040000, fuse.S_IFREG = 0100000, fuse.S_IFLNK = 0120000
S_IFDIR == {14}
S_IFREG == {15}
S_IFLNK == {13, 15}
\* permission bits 0644, 0755, 0777
Perm0644 == {2, 5, 7, 8}
Perm0755 == {0, 2, 3, 5, 6, 7, 8}
Perm0777 == 0..8

BitAnd(m, mask) == m \cap mask
\* os.FileMode.IsDir
IsDir(m) == BitAnd(m, ModeDir) # {}

(***************************************************************************)
(* changes.go                                                              *)
(***************************************************************************)
FileModified == 0
FileAdded    == 1
FileRemoved  == 2

\* WasRemoved(path, c): some change of c removes exactly this path
WasRemoved(path, c) ==
    \E i \in 1..Len(c) : c[i].Path = path /\ c[i].Kind = FileRemoved

(***************************************************************************)
(* Bounds and input domains                                                *)
(***************************************************************************)
\* longest diff list the container returns
MaxChanges == 2
\* clock ticks the model lets pass
MaxTicks == 3
\* inode numbers the handlers may start allocating from
MaxIno == 3

\* request-handler threads of the FUSE server
Threads == {1, 2}

\* tar type flags: TypeReg '0', TypeRegA '\x00', TypeSymlink '2', TypeDir '5'
TypeReg     == "0"
TypeRegA    == "\\x00"
TypeSymlink == "2"
TypeDir     == "5"

Hdr(name, flag, mode) == [bad |-> FALSE, Name |-> name, Typeflag |-> flag, Mode |-> mode]
\* an entry on which tar.Reader.Next fails
BadEntry == [bad |-> TRUE, Name |-> <<>>, Typeflag |-> TypeReg, Mode |-> {}]

\* the exports the model mounts: a directory with a file and a file at the
\* root; and a file in a directory, a symlink, and a malformed entry before
\* the last file
ExportA ==
    << Hdr(<<"a">>, TypeDir, Perm0755),
       Hdr(<<"a", "/", "b">>, TypeReg, Perm0644),
       Hdr(<<"c">>, TypeReg, Perm0644) >>
ExportB ==
    << Hdr(<<".", "/", "a", "/", "c">>, TypeRegA, Perm0644),
       Hdr(<<"b">>, TypeSymlink, Perm0777),
       BadEntry,
       Hdr(<<"c">>, TypeReg, Perm0644) >>
Archives == {ExportA, ExportB}

\* the paths a diff reports (the container runtime never reports the root)
DiffPaths == { <<"/", "a">>, <<"/", "a", "/", "b">> }
Kinds == {FileModified, FileAdded, FileRemoved}
DiffItems == [Path : DiffPaths, Kind : Kinds]

RECURSIVE SeqsUpTo(_, _)
SeqsUpTo(S, n) ==
    IF n = 0 THEN {<<>>}
    ELSE LET shorter == SeqsUpTo(S, n - 1)
         IN  shorter \cup {Append(s, x) : s \in {q \in shorter : Len(q) = n - 1}, x \in S}

\* a Go slice: nil, or a (possibly empty) list
Nil == [nil |-> TRUE, items |-> <<>>]
Slice(items) == [nil |-> FALSE, items |-> items]

\* the names the kernel looks up and creates
Names == { <<"a">>, <<"b">> }
\* the directory nodes: the root and the directory nodes Lookup returns
DirNodes == { <<"/">>, <<"/", "a">> }
\* the (directory node, name) pairs the kernel looks up and creates
LookupArgs == { <<d, n>> : d \in DirNodes, n \in Names } \ { << <<"/", "a">>, <<"a">> >> }
\* the directories ChangesInDir is asked about
DirArgs == DirNodes \cup { <<"/", "a", "/">> }

\* error texts: a nil error, a text that ends in 404, the text of a failed
\* request, and the text of ErrorNotFound (mng.go line 142)
NoErr         == <<>>
Err404        == <<"s", "t", "a", "t", "u", "s", " ", "4", "0", "4">>
ErrTransport  == <<"E", "O", "F">>
ErrorNotFound == <<"N", "o", "t", " ", "f", "o", "u", "n", "d">>

\* what a stat of a path answers: the path's mode, or an error; notFound
\* tells whether the container answered that the path does not exist
StatOK(m) == [err |-> NoErr, notFound |-> FALSE, Mode |-> m]
StatErr(text, notFound) == [err |-> text, notFound |-> notFound, Mode |-> {}]
StatOutcomes ==
    { StatErr(Err404, TRUE), StatErr(ErrTransport, FALSE),
      StatOK(Perm0644), StatOK(ModeDir \cup Perm0755), StatOK(ModeSymlink \cup Perm0777) }
\* the answers to the stat of Lookup: the ones above, and a missing path
\* reported with the text of ErrorNotFound
LookupStats == StatOutcomes \cup { StatErr(ErrorNotFound, TRUE) }

(***************************************************************************)
(* mng.go: the export parser                                               *)
(***************************************************************************)
\* m with key k set to v (Go map assignment)
MapSet(m, k, v) == [x \in DOMAIN m \cup {k} |-> IF x = k THEN v ELSE m[x]]
EmptyMap == [x \in {} |-> {}]

\* one header of the export: regular files are indexed, the rest is skipped
ParseEntry(result, hdr) ==
    IF hdr.Typeflag \in {TypeReg, TypeRegA}
    THEN MapSet(result, <<SEP>> \o Clean(hdr.Name), hdr.Mode)
    ELSE result

\* a reader that takes a malformed entry for a header
ReadFails_Mut(entry) == FALSE

\* lines 119-128: tr.Next() returns an error other than io.EOF
ReadFails(entry) == entry.bad

\* parseContainterContent: the loop over tr.Next(), left at the first error
RECURSIVE ParseFrom(_, _)
ParseFrom(result, archive) ==
    IF archive = <<>> THEN result
    ELSE IF ReadFails(Head(archive)) THEN result
    ELSE ParseFrom(ParseEntry(result, Head(archive)), Tail(archive))

parseContainterContent(archive) == ParseFrom(EmptyMap, archive)

(***************************************************************************)
(* State                                                                   *)
(***************************************************************************)
VARIABLES
    staticFiles,     \* Mng.staticFiles: snapshot path -> mode
    changes,         \* Mng.changes: the cached diff (a slice, nil at first)
    changesUpdated,  \* Mng.changesUpdated: time of the last refresh
    changesMutex,    \* Mng.changesMutex: 0 when free, else the holder
    now,             \* the wall clock, in ticks
    inodes,          \* the inode table: cleaned path -> number
    nextIno,         \* the next unused inode number
    th,              \* per thread: the handler it runs and where it is
    issued,          \* history: <<cleaned path, number>> handed to the kernel
    lastBody,        \* history: body of the last successful diff
    extraDiffs,      \* history: diff calls issued since the last refresh
    served,          \* history: ChangesInDir calls answered since then
    committed,       \* history: (changes, changesUpdated) of the last refresh
    export,          \* the export archive of the container
    tr,              \* parseContainterContent: the entries tr.Next has yet to read
    parsed,          \* parseContainterContent: running, or what it returned
    attrOut,         \* the fuse.AttrOut of the last Getattr and its node
    uploaded,        \* the CopyToContainer requests the container received
    statusFile,      \* $HOME/.dockerfs.status.json: whether it exists, and its bytes
    proc             \* per manager process: where it is and its status map

vars == <<staticFiles, changes, changesUpdated, changesMutex, now, inodes,
          nextIno, th, issued, lastBody, extraDiffs, served, committed,
          export, tr, parsed, attrOut, uploaded, statusFile, proc>>

parseVars  == <<export, tr, parsed>>
nodeVars   == <<attrOut, uploaded>>
statusVars == <<statusFile, proc>>
\* what the handlers of the mounted filesystem leave alone
otherVars  == <<parseVars, nodeVars, statusVars>>

cacheVars == <<changes, changesUpdated, changesMutex>>
inoVars   == <<inodes, nextIno, issued>>
histVars  == <<lastBody, extraDiffs, served, committed>>

\* changesUpdateInterval: 30 s, in ticks of 15 s
changesUpdateInterval == 2
\* the zero time.Time, long before the mount
ZeroTime == 0
\* the clock at mount
MountTime == ZeroTime + changesUpdateInterval + 1

NoNode == [kind |-> "none", path |-> <<>>, mode |-> {}, ino |-> 0, write |-> FALSE]
\* stat: what the stat of a failed Lookup had answered (history)
NoOut  == [errno |-> "", err |-> "", changes |-> <<>>, list |-> <<>>, node |-> NoNode,
           stat |-> "none"]
Idle   == [pc |-> "idle", op |-> "none", dir |-> <<>>, name |-> <<>>,
           seen |-> <<>>, res |-> <<>>, st2 |-> <<>>, children |-> EmptyMap,
           list |-> <<>>, mode |-> {}, unseen |-> FALSE, waited |-> FALSE,
           out |-> NoOut]

\* n + 1 for the history counters, which stop counting at 2
Sat(n) == IF n >= 2 THEN 2 ELSE n + 1

\* Mng.Root: the root directory node
Root == <<SEP>>
RootIno == 1

\* no Getattr has answered yet
NoAttr == [node |-> NoNode, Mode |-> {}, Uid |-> "", Gid |-> ""]

\* the processes that run MountContainer and the container each of them
\* mounts, and the process that runs UnmountContainer
Procs == {1, 2}
ContainerOf(p) == IF p = 1 THEN <<"c", "1">> ELSE <<"c", "2">>
Cli == 3
\* a process that is not running; buf holds the bytes ReadStatus has read
\* so far, status is the map writeStatus has read, asked tells that an
\* unmount of the container was ordered since the mount began or was
\* under way when it began (history)
ProcIdle == [pc |-> "idle", op |-> "none", id |-> <<>>, path |-> <<>>, buf |-> <<>>,
             status |-> EmptyMap, asked |-> FALSE]
\* the status file before the first mount: there is none
NoFile == [exists |-> FALSE, bytes |-> <<>>]

Init ==
    /\ \E archive \in Archives :
         /\ staticFiles = parseContainterContent(archive)
         /\ export = archive
    /\ tr = <<>>
    /\ parsed = "nil"
    /\ attrOut = NoAttr
    /\ uploaded = <<>>
    /\ statusFile = NoFile
    /\ proc = [p \in Procs \cup {Cli} |-> ProcIdle]
    /\ changes = Nil
    /\ changesUpdated = ZeroTime
    /\ changesMutex = 0
    /\ now = MountTime
    /\ inodes = [p \in {Root} |-> RootIno]
    /\ nextIno = RootIno + 1
    /\ th = [t \in Threads |-> Idle]
    /\ issued = {}
    /\ lastBody = "none"
    /\ extraDiffs = 0
    /\ served = 0
    /\ committed = <<Nil, ZeroTime>>

\* time passes
Tick ==
    /\ now < MountTime + MaxTicks
    /\ now' = now + 1
    /\ UNCHANGED <<otherVars, staticFiles, cacheVars, inoVars, histVars, th>>

(***************************************************************************)
(* mng.go: Mng.Init, the export parsed entry by entry                      *)
(***************************************************************************)
\* most entries of an export the parser is run on
MaxEntries == 3

\* the entries an export is made of
ParseEntries == {ExportA[i] : i \in 1..Len(ExportA)} \cup {ExportB[i] : i \in 1..Len(ExportB)}

\* Mng.Init is about to parse an export: nothing is mounted yet
InitParse ==
    /\ export \in SeqsUpTo(ParseEntries, MaxEntries)
    /\ tr = export
    /\ parsed = "open"
    /\ staticFiles = EmptyMap
    /\ changes = Nil
    /\ changesUpdated = ZeroTime
    /\ changesMutex = 0
    /\ now = MountTime
    /\ inodes = [p \in {Root} |-> RootIno]
    /\ nextIno = RootIno + 1
    /\ th = [t \in Threads |-> Idle]
    /\ issued = {}
    /\ lastBody = "none"
    /\ extraDiffs = 0
    /\ served = 0
    /\ committed = <<Nil, ZeroTime>>
    /\ attrOut = NoAttr
    /\ uploaded = <<>>
    /\ statusFile = NoFile
    /\ proc = [p \in Procs \cup {Cli} |-> ProcIdle]

\* lines 110-117: os.Open; when it fails the parser returns the error
ParseOpen ==
    /\ parsed = "open"
    /\ parsed' \in {"running", "error"}
    /\ UNCHANGED <<export, tr, nodeVars, statusVars, staticFiles, cacheVars, now,
                   inoVars, histVars, th>>

\* lines 118-138: one turn of the loop. At the end of the archive and at
\* an entry that cannot be read the loop is left and line 139 returns the
\* result with a nil error; staticFiles holds the result
ParseNext ==
    /\ parsed = "running"
    /\ IF tr = <<>> \/ ReadFails(Head(tr))
       THEN /\ parsed' = "nil"
            /\ UNCHANGED <<tr, staticFiles>>
       ELSE /\ staticFiles' = ParseEntry(staticFiles, Head(tr))
            /\ tr' = Tail(tr)
            /\ UNCHANGED parsed
    /\ UNCHANGED <<export, nodeVars, statusVars, cacheVars, now, inoVars, histVars, th>>

(***************************************************************************)
(* mng.go: Mng.ChangesInDir and Mng.fetchFsChanges                         *)
(***************************************************************************)
\* a handler thread enters ChangesInDir(dir)
BeginChangesInDir(t, dir) ==
    /\ th[t].pc = "idle"
    /\ th' = [th EXCEPT ![t] = [Idle EXCEPT !.pc = "lock", !.op = "ChangesInDir", !.dir = dir]]
    /\ UNCHANGED <<otherVars, staticFiles, cacheVars, now, inoVars, histVars>>

\* a lock that never waits
MutexFree_Mut == TRUE

\* m.changesMutex.Lock(): the mutex can be taken
MutexFree == changesMutex = 0

Lock(t) ==
    /\ th[t].pc = "lock"
    /\ MutexFree
    /\ changesMutex' = t
    /\ th' = [th EXCEPT ![t].pc = "check"]
    /\ UNCHANGED <<otherVars, staticFiles, changes, changesUpdated, now, inoVars, histVars>>

\* an expiry test that holds from the end of the interval on
Expired_AtBoundary == now >= changesUpdated + changesUpdateInterval

\* an expiry test that allows one tick more
Expired_Late == now > changesUpdated + changesUpdateInterval + 1

\* an expiry test that adds the interval on the wrong side
Expired_Mut == now + changesUpdateInterval > changesUpdated

\* time.Now().After(m.changesUpdated.Add(m.changesUpdateInterval))
Expired == now > changesUpdated + changesUpdateInterval

\* m.changes == nil || expired
NeedsRefresh == changes.nil \/ Expired

\* the test of line 186: refresh (the diff request goes out), or use the cache
Check(t) ==
    /\ th[t].pc = "check"
    /\ IF NeedsRefresh
       THEN /\ th' = [th EXCEPT ![t].pc = "fetch"]
            /\ extraDiffs' = Sat(extraDiffs)
       ELSE /\ th' = [th EXCEPT ![t].pc = "filter"]
            /\ UNCHANGED extraDiffs
    /\ UNCHANGED <<otherVars, staticFiles, cacheVars, now, inoVars, lastBody, served, committed>>

\* what the handler returns when ChangesInDir fails: ChangesInDir the error,
\* Readdir (line 111) EIO
FailOut(op, why) ==
    IF op = "Readdir" THEN [NoOut EXCEPT !.errno = "EIO"]
    ELSE [NoOut EXCEPT !.errno = "ERR", !.err = why]

\* lines 216-228: the ways fetchFsChanges fails
FetchErrors == {"transport", "status", "decode"}

\* a refresh that decodes into the cache itself and leaves it emptied
FetchFail_Mut(t) ==
    /\ th[t].pc = "fetch"
    /\ changesMutex' = 0
    /\ changes' = Slice(<<>>)
    /\ \E why \in FetchErrors :
         th' = [th EXCEPT ![t].pc = "idle", ![t].waited = FALSE,
                         ![t].out = FailOut(th[t].op, why)]
    /\ UNCHANGED <<otherVars, staticFiles, changesUpdated, now, inoVars, histVars>>

\* fetchFsChanges fails: transport error, status other than 200, or a body
\* that does not decode; ChangesInDir returns the error, the deferred
\* Unlock runs
FetchFail(t) ==
    /\ th[t].pc = "fetch"
    /\ changesMutex' = 0
    /\ \E why \in FetchErrors :
         th' = [th EXCEPT ![t].pc = "idle", ![t].waited = FALSE,
                         ![t].out = FailOut(th[t].op, why)]
    /\ UNCHANGED <<otherVars, staticFiles, changes, changesUpdated, now, inoVars, histVars>>

\* json.Decoder.Decode into an empty non-nil slice: null makes it nil, an
\* array replaces it
JsonNull == [json |-> "null", array |-> <<>>]
JsonArray(a) == [json |-> "array", array |-> a]
\* the runtime reports each path once
DistinctPaths(a) == \A i, j \in 1..Len(a) : a[i].Path = a[j].Path => i = j
DiffBodies ==
    {JsonNull} \cup {JsonArray(a) : a \in {q \in SeqsUpTo(DiffItems, MaxChanges) : DistinctPaths(q)}}
\* an empty list and a list of one added path
InodeBodies ==
    { JsonArray(<<>>), JsonArray(<<[Path |-> <<"/", "a">>, Kind |-> FileAdded]>>) }
\* a null body, an empty list, and a list of one added and one removed path
FewBodies ==
    { JsonNull, JsonArray(<<>>),
      JsonArray(<<[Path |-> <<"/", "a">>, Kind |-> FileAdded],
                  [Path |-> <<"/", "a", "/", "b">>, Kind |-> FileRemoved]>>) }
\* lists of two children of one directory: an added and a removed one, and
\* two added ones
StatBodies ==
    { JsonArray(<<[Path |-> <<"/", "a", "/", "b">>, Kind |-> FileAdded],
                  [Path |-> <<"/", "a", "/", "c">>, Kind |-> FileRemoved]>>),
      JsonArray(<<[Path |-> <<"/", "a", "/", "b">>, Kind |-> FileAdded],
                  [Path |-> <<"/", "a", "/", "c">>, Kind |-> FileAdded]>>) }
Decode(body) == IF body.json = "null" THEN Nil ELSE Slice(body.array)
BodyKind(c) == IF c.nil THEN "null" ELSE "array"

\* fetchFsChanges line 229: m.changes = changes
FetchOK(t, bodies) ==
    /\ th[t].pc = "fetch"
    /\ \E body \in bodies : changes' = Decode(body)
    /\ th' = [th EXCEPT ![t].pc = "stamp"]
    /\ UNCHANGED <<otherVars, staticFiles, changesUpdated, changesMutex, now, inoVars, histVars>>

\* fetchFsChanges line 230: m.changesUpdated = time.Now()
Stamp(t) ==
    /\ th[t].pc = "stamp"
    /\ changesUpdated' = now
    /\ th' = [u \in Threads |->
                IF u = t THEN [th[u] EXCEPT !.pc = "filter"]
                ELSE IF th[u].pc = "lock" THEN [th[u] EXCEPT !.waited = TRUE]
                ELSE th[u]]
    /\ lastBody' = BodyKind(changes)
    /\ extraDiffs' = 0
    /\ served' = 0
    /\ committed' = <<changes, now>>
    /\ UNCHANGED <<otherVars, staticFiles, changes, changesMutex, now, inoVars>>

\* a filter that lets modified files through
SkipModified_Mut(change) == FALSE

\* line 196: modified files are skipped
SkipModified(change) == change.Kind = FileModified

\* a filter that tests for a path below dir instead of a child of dir
NotDirectChild_Mut(change, dir) == ~HasPrefix(change.Path, dir)

\* line 199: the change is not a direct child of dir (dir is cleaned)
NotDirectChild(change, dir) == Clean(Dir(change.Path)) # dir

\* a loop that takes every answer of the stat for a mode
StatFailed_Mut(s) == FALSE

\* line 204: the stat of the entry failed
StatFailed(s) == s.err # NoErr

\* lines 194-210: the changes of the cache that are direct children of dir,
\* each with the mode its stat st[i] reports; an entry whose stat fails is
\* left out
RECURSIVE FilterFrom(_, _, _, _)
FilterFrom(items, i, dir, st) ==
    IF i > Len(items) THEN <<>>
    ELSE LET change == items[i]
             rest   == FilterFrom(items, i + 1, dir, st)
         IN  IF SkipModified(change) THEN rest
             ELSE IF NotDirectChild(change, dir) THEN rest
             ELSE IF StatFailed(st[i]) THEN rest
             ELSE <<[Path |-> change.Path, Kind |-> change.Kind, mode |-> st[i].Mode]>> \o rest

\* lines 193-211 and the deferred Unlock, one answer of a stat at a time.
\* The loop stats the entries that get past the tests of lines 196 and
\* 199, in order, with the mutex held; st2 keeps the answers so far. With
\* the last answer (or when there is nothing to stat) the call returns
\* and the mutex is released. For a call of ChangesInDir st2 stays as the
\* record of the stats made (history)
Filter(t) ==
    /\ th[t].pc = "filter"
    /\ LET stated == {i \in 1..Len(changes.items) :
                         /\ ~SkipModified(changes.items[i])
                         /\ ~NotDirectChild(changes.items[i], Clean(th[t].dir))}
           left   == stated \ DOMAIN th[t].st2
           next   == IF left = {} THEN {} ELSE {CHOOSE i \in left : \A j \in left : i <= j}
           answers == IF next = {} THEN {th[t].st2}
                      ELSE {MapSet(th[t].st2, CHOOSE i \in next : TRUE, a) : a \in StatOutcomes}
       IN  \E st \in answers :
             /\ IF left \ next # {}
                THEN /\ th' = [th EXCEPT ![t].st2 = st]
                     /\ UNCHANGED <<changesMutex, served>>
                ELSE LET result == FilterFrom(changes.items, 1, Clean(th[t].dir), st)
                     IN  /\ th' = [th EXCEPT ![t] =
                                IF th[t].op = "Readdir"
                                THEN [@ EXCEPT !.pc = "list", !.waited = FALSE, !.st2 = <<>>,
                                               !.seen = changes.items, !.res = result]
                                ELSE [@ EXCEPT !.pc = "idle", !.waited = FALSE, !.st2 = st,
                                               !.out = [NoOut EXCEPT !.errno = "OK",
                                                                     !.changes = result]]]
                         /\ changesMutex' = 0
                         /\ served' = Sat(served)
    /\ UNCHANGED <<otherVars, staticFiles, changes, changesUpdated, now, inoVars, lastBody, extraDiffs, committed>>

(***************************************************************************)
(* The inode table (inodes.Inode)                                          *)
(***************************************************************************)
\* the number of key: the one it has, or the next unused one
InodeOf(key) == IF key \in DOMAIN inodes THEN inodes[key] ELSE nextIno

\* d.mng.inodes.Inode(key) for the kernel-visible path: one atomic call
Inode(key, path) ==
    /\ inodes' = IF key \in DOMAIN inodes THEN inodes ELSE MapSet(inodes, key, nextIno)
    /\ nextIno' = IF key \in DOMAIN inodes THEN nextIno ELSE nextIno + 1
    /\ issued' = issued \cup {<<path, InodeOf(key)>>}

(***************************************************************************)
(* Dir.Readdir                                                             *)
(***************************************************************************)
\* lines 103-106: the prefix of the children of fullpath
DirPrefix(fullpath) == IF fullpath # <<SEP>> THEN fullpath \o <<SEP>> ELSE fullpath

\* lines 123-135: the child a snapshot entry stands for and its type, or
\* nothing when the rest of the name starts with a separator
SnapshotChild(name, mode, path) ==
    LET sub == SubSeq(name, Len(path) + 1, Len(name))
        pos == IndexSep(sub)
    IN  IF pos > 0 THEN {<<SubSeq(sub, 1, pos), S_IFDIR>>}
        ELSE IF pos < 0
             THEN {<<sub, IF BitAnd(mode, S_IFLNK) = S_IFLNK THEN S_IFLNK ELSE S_IFREG>>}
             ELSE {}

\* lines 115-136: the children the snapshot gives, removed entries left out
SnapshotPairs(fullpath, chs) ==
    UNION { SnapshotChild(name, staticFiles[name], DirPrefix(fullpath)) :
              name \in {n \in DOMAIN staticFiles :
                          /\ HasPrefix(n, DirPrefix(fullpath))
                          /\ ~WasRemoved(n, chs)} }

\* the maps the loop over staticFiles can leave (Go ranges over a map in
\* any order: when two entries give one child, either type may stay)
SnapshotMaps(pairs) ==
    {f \in [{pr[1] : pr \in pairs} -> {S_IFDIR, S_IFREG, S_IFLNK}] :
        \A n \in DOMAIN f : <<n, f[n]>> \in pairs}

\* a test against the wrong kind
IsAdded_Mut(ch) == ch.Kind = FileModified

\* line 140: only added entries are looked at
IsAdded(ch) == ch.Kind = FileAdded

\* lines 152-155: the type of an added entry
AddedMode(mode) == IF IsDir(mode) THEN S_IFDIR ELSE S_IFREG

\* line 156: the name of an added entry
AddedName(ch) == Base(ch.Path)

\* a map write that keeps the type the snapshot gave
PutChild_Mut(children, name, mode) ==
    IF name \in DOMAIN children THEN children ELSE MapSet(children, name, mode)

\* line 156: children[name] = mode
PutChild(children, name, mode) == MapSet(children, name, mode)

\* lines 139-157: the added entries, each stat'ed again (st[i]), put over
\* the snapshot's children
RECURSIVE AddedFrom(_, _, _, _)
AddedFrom(children, chs, i, st) ==
    IF i > Len(chs) THEN children
    ELSE IF ~IsAdded(chs[i]) \/ st[i].err # NoErr
         THEN AddedFrom(children, chs, i + 1, st)
         ELSE AddedFrom(PutChild(children, AddedName(chs[i]), AddedMode(st[i].Mode)),
                        chs, i + 1, st)

\* a key put together without Join and Clean
ReaddirInodeKey_Mut(fullpath, child) == fullpath \o <<SEP>> \o child

\* line 161: the inode key of a child
ReaddirInodeKey(fullpath, child) == Clean(Join(fullpath, child))

BeginReaddir(t, d) ==
    /\ th[t].pc = "idle"
    /\ nextIno <= MaxIno
    /\ th' = [th EXCEPT ![t] = [Idle EXCEPT !.pc = "lock", !.op = "Readdir", !.dir = d]]
    /\ UNCHANGED <<otherVars, staticFiles, cacheVars, now, inoVars, histVars>>

\* lines 114-157: the children map, one answer of a stat at a time. The
\* loop over the snapshot makes no request: it is taken with the first
\* step. The loop of lines 139-157 stats the added entries in order; st2
\* keeps the answers so far and children the map so far. With the last
\* answer (or when no entry is added) the loop over the map begins
ReaddirChildren(t) ==
    /\ th[t].pc = "list"
    /\ LET added == {k \in 1..Len(th[t].res) : IsAdded(th[t].res[k])}
           left  == added \ DOMAIN th[t].st2
           next  == IF left = {} THEN {} ELSE {CHOOSE i \in left : \A j \in left : i <= j}
           bases == IF DOMAIN th[t].st2 = {}
                    THEN SnapshotMaps(SnapshotPairs(th[t].dir, th[t].res))
                    ELSE {th[t].children}
           answers == IF next = {} THEN {th[t].st2}
                      ELSE {MapSet(th[t].st2, CHOOSE i \in next : TRUE, a) : a \in StatOutcomes}
       IN  \E st \in answers : \E f \in bases :
             LET children == IF next = {} THEN f
                             ELSE LET i == CHOOSE x \in next : TRUE
                                  IN  AddedFrom(f, SubSeq(th[t].res, 1, i), i, st)
             IN  th' = [th EXCEPT ![t] =
                            IF left \ next # {}
                            THEN [@ EXCEPT !.st2 = st, !.children = children]
                            ELSE IF DOMAIN children = {}
                            THEN [@ EXCEPT !.pc = "idle", !.st2 = st, !.children = EmptyMap,
                                           !.out = [NoOut EXCEPT !.errno = "OK"]]
                            ELSE [@ EXCEPT !.pc = "ino", !.st2 = st, !.children = children]]
    /\ UNCHANGED <<otherVars, staticFiles, cacheVars, now, inoVars, histVars>>

\* lines 159-168: one turn of the loop over the children map (in any
\* order); after the last child the list is returned
ReaddirIno(t) ==
    /\ th[t].pc = "ino"
    /\ \E child \in DOMAIN th[t].children :
         LET key   == ReaddirInodeKey(th[t].dir, child)
             entry == [Mode |-> th[t].children[child], Name |-> child, Ino |-> InodeOf(key)]
             left  == [c \in DOMAIN th[t].children \ {child} |-> th[t].children[c]]
             list  == Append(th[t].list, entry)
         IN  /\ Inode(key, Clean(Join(th[t].dir, child)))
             /\ th' = [th EXCEPT ![t] =
                         IF DOMAIN left = {}
                         THEN [@ EXCEPT !.pc = "idle", !.children = left, !.list = <<>>,
                                        !.out = [NoOut EXCEPT !.errno = "OK", !.list = list]]
                         ELSE [@ EXCEPT !.children = left, !.list = list]]
    /\ UNCHANGED <<otherVars, staticFiles, cacheVars, now, histVars>>

(***************************************************************************)
(* Dir.Lookup and Dir.Create                                               *)
(***************************************************************************)
\* a key put together without Join and Clean
LookupInodeKey_Mut(fullpath, name) == fullpath \o <<SEP>> \o name

\* lines 39 and 54: the inode key of a looked-up path
LookupInodeKey(fullpath, name) == Clean(Join(fullpath, name))
\* lines 69 and 94: the inode key of a created path
CreateInodeKey(fullpath, name) == Clean(Join(fullpath, name))

\* lines 55-64: the node Lookup returns for a mode
LookupNode(path, mode, ino) ==
    IF BitAnd(mode, ModeSymlink) # {}
    THEN [kind |-> "symlink", path |-> path, mode |-> S_IFLNK, ino |-> ino, write |-> FALSE]
    ELSE IF IsDir(mode)
         THEN [kind |-> "dir", path |-> path, mode |-> S_IFDIR, ino |-> ino, write |-> FALSE]
         ELSE [kind |-> "file", path |-> path, mode |-> {}, ino |-> ino, write |-> FALSE]

PathOf(t) == Join(th[t].dir, th[t].name)

BeginLookup(t, d, name) ==
    /\ th[t].pc = "idle"
    /\ nextIno <= MaxIno
    /\ th' = [th EXCEPT ![t] = [Idle EXCEPT !.pc = "lk_stat", !.op = "Lookup", !.dir = d,
                                      !.name = name,
                                      !.unseen = Clean(Join(d, name)) \notin DOMAIN inodes]]
    /\ UNCHANGED <<otherVars, staticFiles, cacheVars, now, inoVars, histVars>>

\* line 71: Create probes with Lookup
BeginCreate(t, d, name) ==
    /\ th[t].pc = "idle"
    /\ nextIno <= MaxIno
    /\ th' = [th EXCEPT ![t] = [Idle EXCEPT !.pc = "lk_stat", !.op = "Create", !.dir = d,
                                      !.name = name,
                                      !.unseen = Clean(Join(d, name)) \notin DOMAIN inodes]]
    /\ UNCHANGED <<otherVars, staticFiles, cacheVars, now, inoVars, histVars>>

\* lines 42-48: the errno of Lookup for the error of the stat: a text that
\* ends in 404 is ENOENT, any other error EIO
LookupErrno(err) ==
    IF err # NoErr /\ HasSuffix(err, <<"4", "0", "4">>) THEN "ENOENT"
    ELSE IF err # NoErr THEN "EIO"
    ELSE "OK"

\* a probe whose success is not told from a missing file
CreateErrno_Mut(syserr) ==
    IF syserr # "ENOENT" /\ syserr # "OK" THEN syserr ELSE "OK"

\* lines 71-82: the errno of Create for the errno of its probe Lookup:
\* EEXIST when the probe found the file, the probe's errno when it failed
\* otherwise, and none when the probe said ENOENT (Create goes on)
CreateErrno(syserr) ==
    IF syserr = "OK" THEN "EEXIST"
    ELSE IF syserr # "ENOENT" THEN syserr
    ELSE "OK"

\* what the stat had answered when it failed
StatKind(attrs) == IF attrs.notFound THEN "NotFound" ELSE "Other"

\* lines 41-48: the stat of the path, one of stats, and the errno for its
\* error. In Create the errno is the probe's (line 71)
LookupStat(t, stats) ==
    /\ th[t].pc = "lk_stat"
    /\ \E attrs \in stats :
         LET syserr == LookupErrno(attrs.err)
             failed(errno) == [NoOut EXCEPT !.errno = errno, !.stat = StatKind(attrs)]
         IN  th' = [th EXCEPT ![t] =
                  IF syserr = "OK"
                  THEN [@ EXCEPT !.pc = "lk_ino", !.mode = attrs.Mode]
                  ELSE IF th[t].op = "Create"
                       THEN IF CreateErrno(syserr) = "OK"
                            THEN [@ EXCEPT !.pc = "cr_ino"]
                            ELSE [@ EXCEPT !.pc = "idle", !.out = failed(CreateErrno(syserr))]
                       ELSE [@ EXCEPT !.pc = "idle", !.out = failed(syserr)]]
    /\ UNCHANGED <<otherVars, staticFiles, cacheVars, now, inoVars, histVars>>

\* lines 54-64: the inode number and the node; in Create a successful probe
\* is EEXIST (lines 72-77)
LookupIno(t) ==
    /\ th[t].pc = "lk_ino"
    /\ LET key  == LookupInodeKey(th[t].dir, th[t].name)
           node == LookupNode(PathOf(t), th[t].mode, InodeOf(key))
       IN  /\ Inode(key, Clean(PathOf(t)))
           /\ th' = [th EXCEPT ![t].pc = "idle",
                               ![t].out = IF th[t].op = "Create"
                                          THEN [NoOut EXCEPT !.errno = CreateErrno("OK")]
                                          ELSE [NoOut EXCEPT !.errno = "OK", !.node = node]]
    /\ UNCHANGED <<otherVars, staticFiles, cacheVars, now, histVars>>

\* lines 84-97: the new file node
CreateIno(t) ==
    /\ th[t].pc = "cr_ino"
    /\ LET key  == CreateInodeKey(th[t].dir, th[t].name)
           node == [kind |-> "file", path |-> PathOf(t), mode |-> {}, ino |-> InodeOf(key),
                    write |-> TRUE]
       IN  /\ Inode(key, Clean(PathOf(t)))
           /\ th' = [th EXCEPT ![t].pc = "idle",
                               ![t].out = [NoOut EXCEPT !.errno = "OK", !.node = node]]
    /\ UNCHANGED <<otherVars, staticFiles, cacheVars, now, histVars>>

(***************************************************************************)
(* Dir.Getattr                                                             *)
(***************************************************************************)
\* d.mng.uid and d.mng.gid: the owner the mount reports
MngUid == "mng.uid"
MngGid == "mng.gid"

\* lines 29-35: what Dir.Getattr writes into out for the directory node
DirGetattr(node) == [node |-> node, Mode |-> Perm0755, Uid |-> MngUid, Gid |-> MngGid]

\* the kernel asks for the attributes of the directory node that the Lookup
\* of thread t returned; no request goes to the container
Getattr(t) ==
    /\ th[t].pc = "idle" /\ th[t].op = "Lookup" /\ th[t].out.errno = "OK"
    /\ th[t].out.node.kind = "dir"
    /\ attrOut' = DirGetattr(th[t].out.node)
    /\ UNCHANGED <<parseVars, uploaded, statusVars, staticFiles, cacheVars, now,
                   inoVars, histVars, th>>

(***************************************************************************)
(* dockerMngImpl.SaveFile                                                  *)
(***************************************************************************)
\* most uploads the model follows
MaxUploads == 1

\* the files written, their contents and their modes
SavePaths == { <<"/", "a", "/", "b", "/", "c">>, <<"/", "c">> }
SaveData  == { <<>>, <<"x">>, <<"x", "y">> }
SaveModes == { Perm0644, Perm0755 }

\* filepath.Split(path): everything up to and including the last
\* separator, and the rest
SplitDir(path)  == SubSeq(path, 1, LastIndexSep(path) + 1)
SplitFile(path) == SubSeq(path, LastIndexSep(path) + 2, Len(path))

\* a tar stream is a sequence of blocks: the header of an entry, the bytes
\* of its body, the padding of the body to a full block, and the
\* terminator of the archive
TarHeader(name, size, mode, mtime) ==
    [blk |-> "header", Name |-> name, Size |-> size, Mode |-> mode, ModTime |-> mtime,
     bytes |-> <<>>]
TarBody(data) ==
    [blk |-> "body", Name |-> <<>>, Size |-> 0, Mode |-> {}, ModTime |-> 0, bytes |-> data]
TarPad ==
    [blk |-> "pad", Name |-> <<>>, Size |-> 0, Mode |-> {}, ModTime |-> 0, bytes |-> <<>>]
TarEnd ==
    [blk |-> "end", Name |-> <<>>, Size |-> 0, Mode |-> {}, ModTime |-> 0, bytes |-> <<>>]

\* tar.Writer.WriteHeader, Write and Close on the buffer written so far:
\* the padding of the last body and the terminator are written by Close
WriteHeader(buffer, hdr) == Append(buffer, hdr)
Write(buffer, data) == IF data = <<>> THEN buffer ELSE Append(buffer, TarBody(data))
Close(buffer) ==
    (IF buffer # <<>> /\ buffer[Len(buffer)].blk = "body" THEN Append(buffer, TarPad) ELSE buffer)
        \o <<TarEnd>>

\* tar.Reader.Read on a reader that tar.NewReader has just made: it reads
\* the body of the current entry, and before the first Next there is none
TarReaderRead(raw) == <<>>

\* line 92: what the reader handed to CopyToContainer yields
UploadReader(raw) == TarReaderRead(raw)

\* lines 75-93: the directory and the stream of the CopyToContainer
\* request; the buffer is read at line 92, the deferred Close runs after
\* the request
SaveFileRequest(path, data, mode, mtime) ==
    LET hdr    == TarHeader(SplitFile(path), Len(data), mode, mtime)
        buffer == Write(WriteHeader(<<>>, hdr), data)
    IN  [dir |-> SplitDir(path), content |-> UploadReader(buffer),
         args |-> [path |-> path, data |-> data, mode |-> mode]]

\* a file node saves its buffer: SaveFile(ctx, path, data, stat)
SaveFile(path, data, mode) ==
    /\ Len(uploaded) < MaxUploads
    /\ uploaded' = Append(uploaded, SaveFileRequest(path, data, mode, now))
    /\ UNCHANGED <<parseVars, attrOut, statusVars, staticFiles, cacheVars, now,
                   inoVars, histVars, th>>

(***************************************************************************)
(* manager.go: the status file                                             *)
(***************************************************************************)
\* the mount point each mount process is given on the command line (a
\* relative one and an absolute one), and the working directory
MountPointOf(p) == IF p = 1 THEN <<"m">> ELSE <<"/", "n", "/">>

\* filepath.Abs: a relative path is joined to the working directory
Abs(path) ==
    LET Cwd == <<"/", "w">>
    IN  IF path # <<>> /\ path[1] = SEP THEN Clean(path) ELSE Join(Cwd, path)

\* m with key k deleted (Go delete)
MapDelete(m, k) == [x \in DOMAIN m \ {k} |-> m[x]]

\* lines 113-121: the map writeStatus(id, path) writes for the map it read
NewStatus(status, id, path) ==
    IF path # <<>> THEN MapSet(status, id, Abs(path)) ELSE MapDelete(status, id)

\* the rank of a byte among the bytes of the identifiers and paths, which
\* are listed in byte order
Ord(c) ==
    LET Alphabet == <<"\"", ",", "/", "1", "2", ":", "c", "m", "n", "w", "{", "}">>
    IN  CHOOSE i \in 1..Len(Alphabet) : Alphabet[i] = c

\* a < b for strings, byte by byte (the order json.Marshal sorts keys in)
RECURSIVE Less(_, _)
Less(a, b) ==
    IF a = <<>> THEN b # <<>>
    ELSE IF b = <<>> THEN FALSE
    ELSE IF a[1] = b[1] THEN Less(Tail(a), Tail(b))
    ELSE Ord(a[1]) < Ord(b[1])

\* the members of the object for the keys still to write, smallest first
RECURSIVE MarshalMembers(_, _)
MarshalMembers(m, keys) ==
    IF keys = {} THEN <<>>
    ELSE LET k == CHOOSE x \in keys : \A y \in keys \ {x} : Less(x, y)
             Quote(s) == <<"\"">> \o s \o <<"\"">>
         IN  Quote(k) \o <<":">> \o Quote(m[k])
                \o (IF keys = {k} THEN <<>> ELSE <<",">> \o MarshalMembers(m, keys \ {k}))

\* line 122: json.Marshal(status) for a map[string]string
Marshal(m) == <<"{">> \o MarshalMembers(m, DOMAIN m) \o <<"}">>

\* json.Unmarshal could not decode the bytes
UnmarshalError == [ok |-> FALSE, map |-> EmptyMap]

\* the JSON string that starts at byte i of s, and where the text goes on;
\* j is the index of the closing quote, 0 if there is none
ParseString(s, i) ==
    IF i > Len(s) \/ s[i] # "\"" THEN [ok |-> FALSE, val |-> <<>>, next |-> 0]
    ELSE LET j == IF \E x \in (i+1)..Len(s) : s[x] = "\""
                  THEN CHOOSE x \in (i+1)..Len(s) :
                           s[x] = "\"" /\ \A k \in (i+1)..(x-1) : s[k] # "\""
                  ELSE 0
         IN  IF j = 0 THEN [ok |-> FALSE, val |-> <<>>, next |-> 0]
             ELSE [ok |-> TRUE, val |-> SubSeq(s, i + 1, j - 1), next |-> j + 1]

\* the members of a JSON object from byte i on, put into m; after the
\* closing brace the text must end
RECURSIVE ParseMembers(_, _, _)
ParseMembers(s, i, m) ==
    LET k == ParseString(s, i) IN
    IF ~k.ok \/ k.next > Len(s) \/ s[k.next] # ":" THEN UnmarshalError
    ELSE LET v == ParseString(s, k.next + 1) IN
         IF ~v.ok \/ v.next > Len(s) THEN UnmarshalError
         ELSE IF s[v.next] = ","
              THEN ParseMembers(s, v.next + 1, MapSet(m, k.val, v.val))
              ELSE IF s[v.next] = "}" /\ v.next = Len(s)
                   THEN [ok |-> TRUE, map |-> MapSet(m, k.val, v.val)]
                   ELSE UnmarshalError

\* lines 138-141: json.Unmarshal(data, &status) into an empty map; the
\* texts the manager writes have no white space between the tokens
Unmarshal(data) ==
    IF Len(data) < 2 \/ data[1] # "{" THEN UnmarshalError
    ELSE IF data[2] = "}"
         THEN IF Len(data) = 2 THEN [ok |-> TRUE, map |-> EmptyMap] ELSE UnmarshalError
         ELSE ParseMembers(data, 2, EmptyMap)

\* lines 130-143: what ReadStatus returns for the file: an empty map when
\* there is no file, else the decoded bytes or the error of the decoder
ReadStatusOf(file) ==
    IF ~file.exists THEN [ok |-> TRUE, map |-> EmptyMap] ELSE Unmarshal(file.bytes)

\* what is left unchanged by the manager processes
mountedVars == <<parseVars, nodeVars, staticFiles, cacheVars, now, inoVars, histVars, th>>

\* line 53: MountContainer(containerId, mountPoint, ...) starts with
\* writeStatus(containerId, mountPoint)
BeginMount(p, path) ==
    /\ proc[p].pc \in {"idle", "exited"}
    /\ proc' = [proc EXCEPT ![p] = [ProcIdle EXCEPT !.pc = "read", !.op = "mount",
                                                   !.id = ContainerOf(p), !.path = path,
                                                   !.asked = /\ proc[Cli].op = "unmount"
                                                             /\ proc[Cli].id = ContainerOf(p)]]
    /\ UNCHANGED <<statusFile, mountedVars>>

\* lines 109-112 and 130-143: ReadStatus, one read of ioutil.ReadFile at a
\* time: each read returns the bytes the file holds beyond the ones
\* already read, and the read that returns none ends the file (a missing
\* file has none and gives an empty map). When the bytes read do not decode
\* writeStatus returns the error, and so does its caller
ReadStatus(p) ==
    /\ proc[p].pc = "read"
    /\ LET chunk == SubSeq(statusFile.bytes, Len(proc[p].buf) + 1, Len(statusFile.bytes))
           r     == ReadStatusOf([exists |-> statusFile.exists, bytes |-> proc[p].buf])
       IN  proc' = [proc EXCEPT ![p] =
                      IF chunk # <<>> THEN [@ EXCEPT !.buf = @ \o chunk]
                      ELSE IF r.ok THEN [@ EXCEPT !.pc = "trunc", !.status = r.map,
                                                  !.buf = <<>>]
                      ELSE ProcIdle]
    /\ UNCHANGED <<statusFile, mountedVars>>

\* line 127: ioutil.WriteFile opens the file with O_CREATE and O_TRUNC
Truncate(p) ==
    /\ proc[p].pc = "trunc"
    /\ statusFile' = [exists |-> TRUE, bytes |-> <<>>]
    /\ proc' = [proc EXCEPT ![p].pc = "write"]
    /\ UNCHANGED mountedVars

\* lines 113-127: ioutil.WriteFile writes the marshalled map at the start
\* of the file it has opened (the bytes of the file beyond the written
\* ones stay); after the write of line 53 the mount goes
\* on, after the others the process is done
WriteFile(p) ==
    /\ proc[p].pc = "write"
    /\ LET data == Marshal(NewStatus(proc[p].status, proc[p].id,
                                     IF proc[p].op = "mount" THEN proc[p].path ELSE <<>>))
           rest == SubSeq(statusFile.bytes, Len(data) + 1, Len(statusFile.bytes))
       IN  statusFile' = [exists |-> TRUE, bytes |-> data \o rest]
    /\ proc' = [proc EXCEPT ![p] =
                  IF proc[p].op = "mount" THEN [@ EXCEPT !.pc = "init", !.status = EmptyMap]
                  ELSE ProcIdle]
    /\ UNCHANGED mountedVars

\* lines 70-85: MkdirAll, Init or fs.Mount fails and MountContainer
\* returns the error
MountFail(p) ==
    /\ proc[p].pc = "init"
    /\ proc' = [proc EXCEPT ![p] = ProcIdle]
    /\ UNCHANGED <<statusFile, mountedVars>>

\* lines 70-93: the filesystem is mounted and the server runs
MountOK(p) ==
    /\ proc[p].pc = "init"
    /\ proc' = [proc EXCEPT ![p].pc = "serving"]
    /\ UNCHANGED <<statusFile, mountedVars>>

\* lines 93-96: the filesystem was unmounted from outside, server.Wait
\* returns and MountContainer ends with writeStatus(containerId, "")
ServerFinished(p) ==
    /\ proc[p].pc = "serving"
    /\ proc' = [proc EXCEPT ![p].pc = "read", ![p].op = "finish"]
    /\ UNCHANGED <<statusFile, mountedVars>>

\* lines 145-147: SIGTERM or SIGINT: shutdown unmounts the server. With
\* the serve loops ended server.Wait returns too (line 93), and the main
\* goroutine goes on to writeStatus(containerId, "") of line 96 while
\* shutdown goes on to os.Exit
Shutdown(p) ==
    /\ proc[p].pc = "serving"
    /\ proc' = [proc EXCEPT ![p].pc = "read", ![p].op = "shutdown"]
    /\ UNCHANGED <<statusFile, mountedVars>>

\* lines 147-153: os.Exit in the goroutine of shutdown ends the process
\* wherever the main goroutine is in writeStatus: before it has read, with
\* the file cut to no bytes, or not at all when the write comes first.
\* (When Unmount fails the exit of line 149 comes before anything else.)
OsExit(p) ==
    /\ proc[p].op = "shutdown"
    /\ proc' = [proc EXCEPT ![p] = [ProcIdle EXCEPT !.pc = "exited"]]
    /\ UNCHANGED <<statusFile, mountedVars>>

\* lines 99-104: UnmountContainer(id, path) in another process: umount,
\* whose result is dropped, then writeStatus(id, ""). umount can succeed
\* (ok) when the mount process p serves: its server then finishes. When
\* umount fails, a process that has begun its mount goes on, and the
\* history field asked records that its unmount was ordered
UnmountContainer(p, ok) ==
    /\ proc[Cli].pc = "idle"
    /\ ok => proc[p].pc = "serving"
    /\ proc' = [proc EXCEPT ![Cli] = [ProcIdle EXCEPT !.pc = "read", !.op = "unmount",
                                                     !.id = ContainerOf(p)],
                            ![p] = IF ok THEN [@ EXCEPT !.pc = "read", !.op = "finish"]
                                   ELSE IF @.pc \in {"idle", "exited"} THEN @
                                   ELSE [@ EXCEPT !.asked = TRUE]]
    /\ UNCHANGED <<statusFile, mountedVars>>

(***************************************************************************)
(* Specifications                                                          *)
(***************************************************************************)
\* the steps of ChangesInDir and fetchFsChanges
CacheStep(t, bodies) ==
    \/ Lock(t) \/ Check(t) \/ FetchFail(t) \/ FetchOK(t, bodies) \/ Stamp(t) \/ Filter(t)

\* the mount of the first export
InitInode == Init /\ staticFiles = parseContainterContent(ExportA)

\* directory listings by one handler at a time
NextList ==
    \/ Tick
    \/ \E dir \in DirArgs : BeginChangesInDir(1, dir)
    \/ \E d \in DirNodes : BeginReaddir(1, d)
    \/ CacheStep(1, DiffBodies)
    \/ ReaddirChildren(1) \/ ReaddirIno(1)

SpecList == Init /\ [][NextList]_vars

\* concurrent ChangesInDir calls while time passes
NextCache ==
    \/ Tick
    \/ \E t \in Threads :
         \/ \E dir \in DirArgs : BeginChangesInDir(t, dir)
         \/ CacheStep(t, FewBodies)

SpecCache == Init /\ [][NextCache]_vars

\* concurrent ChangesInDir and Readdir calls on directories with two
\* changed children: a handler waits for one stat after the other
NextStat ==
    \/ \E t \in Threads :
         \/ \E dir \in DirNodes : BeginChangesInDir(t, dir)
         \/ CacheStep(t, StatBodies)
    \/ BeginReaddir(1, <<"/", "a">>)
    \/ ReaddirChildren(1) \/ ReaddirIno(1)

SpecStat == InitInode /\ [][NextStat]_vars

\* concurrent Lookup, Create and Readdir
NextInode ==
    \E t \in Threads :
         \/ \E d \in DirNodes : BeginReaddir(t, d)
         \/ \E a \in LookupArgs : BeginLookup(t, a[1], a[2])
         \/ \E a \in LookupArgs : BeginCreate(t, a[1], a[2])
         \/ CacheStep(t, InodeBodies)
         \/ ReaddirChildren(t) \/ ReaddirIno(t)
         \/ LookupStat(t, StatOutcomes) \/ LookupIno(t) \/ CreateIno(t)

\* one handler at a time: Lookup, Create, Getattr on the directory a Lookup
\* returned, and the uploads of file nodes
NextNode ==
    \/ \E a \in LookupArgs : BeginLookup(1, a[1], a[2])
    \/ \E a \in LookupArgs : BeginCreate(1, a[1], a[2])
    \/ LookupStat(1, LookupStats) \/ LookupIno(1) \/ CreateIno(1)
    \/ Getattr(1)
    \/ \E path \in SavePaths, data \in SaveData, mode \in SaveModes : SaveFile(path, data, mode)

SpecNode == Init /\ [][NextNode]_vars

\* Mng.Init on an export
NextParse == ParseOpen \/ ParseNext

SpecParse == InitParse /\ [][NextParse]_vars

\* mounts and unmounts of two containers by concurrent processes
NextStatus ==
    \/ \E p \in Procs :
         \/ BeginMount(p, MountPointOf(p))
         \/ MountFail(p) \/ MountOK(p)
         \/ ServerFinished(p) \/ Shutdown(p) \/ OsExit(p)
         \/ \E ok \in BOOLEAN : UnmountContainer(p, ok)
    \/ \E p \in Procs \cup {Cli} : ReadStatus(p) \/ Truncate(p) \/ WriteFile(p)

SpecStatus == InitInode /\ [][NextStatus]_vars

SpecInode == InitInode /\ [][NextInode]_vars

(***************************************************************************)
(* Properties of directory listings (SpecList)                             *)
(***************************************************************************)
\* thread t has returned from a successful Readdir
ReaddirDone(t) == th[t].op = "Readdir" /\ th[t].pc = "idle" /\ th[t].out.errno = "OK"
\* thread t has returned from a successful ChangesInDir
ChangesDone(t) == th[t].op = "ChangesInDir" /\ th[t].pc = "idle" /\ th[t].out.errno = "OK"

Listed(t, name) == \E j \in 1..Len(th[t].out.list) : th[t].out.list[j].Name = name
InDir(change, d) == Clean(Dir(change.Path)) = Clean(d)
\* the names Readdir derives from the snapshot alone
SnapshotNames(d) == {pr[1] : pr \in SnapshotPairs(d, <<>>)}
\* the entries of the ChangesInDir result for path whose second stat succeeded
StatOKAt(t, path) ==
    {k \in DOMAIN th[t].st2 : th[t].res[k].Path = path /\ th[t].st2[k].err = NoErr}

\* C1: a path the changes cache reports as Removed in directory d is not
\* listed by Readdir(d)
C1_RemovedNeverListed ==
    \A t \in Threads : ReaddirDone(t) =>
        \A i \in 1..Len(th[t].seen) :
            (th[t].seen[i].Kind = FileRemoved /\ InDir(th[t].seen[i], th[t].dir))
                => ~Listed(t, Base(th[t].seen[i].Path))

\* C2 as stated: every Added change of the cache in directory d is listed by
\* a successful Readdir(d)
C2_AddedAlwaysListed ==
    \A t \in Threads : ReaddirDone(t) =>
        \A i \in 1..Len(th[t].seen) :
            (th[t].seen[i].Kind = FileAdded /\ InDir(th[t].seen[i], th[t].dir))
                => Listed(t, Base(th[t].seen[i].Path))

\* C2: every Added change of the cache in directory d whose stat succeeds,
\* in ChangesInDir and again in Readdir, is listed by a successful
\* Readdir(d); Readdir stats every added entry that ChangesInDir returned
C2_AddedListedWhenStatOK ==
    \A t \in Threads : ReaddirDone(t) =>
        /\ \A k \in 1..Len(th[t].res) :
              th[t].res[k].Kind = FileAdded => k \in DOMAIN th[t].st2
        /\ \A i \in 1..Len(th[t].seen) :
            (/\ th[t].seen[i].Kind = FileAdded
             /\ InDir(th[t].seen[i], th[t].dir)
             /\ StatOKAt(t, th[t].seen[i].Path) # {})
                => Listed(t, Base(th[t].seen[i].Path))

\* a listing holds an added name that the snapshot does not give
C2_Witness ==
    \E t \in Threads : ReaddirDone(t) /\
        \E i \in 1..Len(th[t].seen) :
            /\ th[t].seen[i].Kind = FileAdded
            /\ InDir(th[t].seen[i], th[t].dir)
            /\ StatOKAt(t, th[t].seen[i].Path) # {}
            /\ Base(th[t].seen[i].Path) \notin SnapshotNames(th[t].dir)
            /\ Listed(t, Base(th[t].seen[i].Path))
            /\ Len(th[t].out.list) >= 2

\* the file type of a mode: directory, symlink or regular file
TypeBits(mode) ==
    IF IsDir(mode) THEN S_IFDIR
    ELSE IF BitAnd(mode, ModeSymlink) # {} THEN S_IFLNK ELSE S_IFREG

NoDuplicateNames(t) ==
    \A i, j \in 1..Len(th[t].out.list) :
        th[t].out.list[i].Name = th[t].out.list[j].Name => i = j

\* C3 as stated: no name is listed twice, and a name that the snapshot gives
\* and that ChangesInDir(d) returned as Added is listed with the type of the
\* added entry (the mode ChangesInDir populated)
C3_AddedEntryWins ==
    \A t \in Threads : ReaddirDone(t) =>
        /\ NoDuplicateNames(t)
        /\ \A k \in 1..Len(th[t].res) :
            (/\ th[t].res[k].Kind = FileAdded
             /\ Base(th[t].res[k].Path) \in SnapshotNames(th[t].dir))
                => \E j \in 1..Len(th[t].out.list) :
                       /\ th[t].out.list[j].Name = Base(th[t].res[k].Path)
                       /\ th[t].out.list[j].Mode = TypeBits(th[t].res[k].mode)

\* C3: no name is listed twice, and a name that the snapshot gives and that
\* is an Added change in d whose stats succeed is listed once, as a
\* directory when the added entry's mode has the directory bit and as a
\* regular file otherwise
C3_NoDuplicatesAddedWins ==
    \A t \in Threads : ReaddirDone(t) =>
        /\ NoDuplicateNames(t)
        /\ \A i \in 1..Len(th[t].seen) :
            (/\ th[t].seen[i].Kind = FileAdded
             /\ InDir(th[t].seen[i], th[t].dir)
             /\ Base(th[t].seen[i].Path) \in SnapshotNames(th[t].dir))
                => \A k \in StatOKAt(t, th[t].seen[i].Path) :
                   \E j \in 1..Len(th[t].out.list) :
                       /\ th[t].out.list[j].Name = Base(th[t].seen[i].Path)
                       /\ th[t].out.list[j].Mode =
                             (IF IsDir(th[t].st2[k].Mode) THEN S_IFDIR ELSE S_IFREG)

\* a listing where the added entry replaced the type the snapshot gave
C3_Witness ==
    \E t \in Threads : ReaddirDone(t) /\
        \E i \in 1..Len(th[t].seen) : \E k \in StatOKAt(t, th[t].seen[i].Path) :
            /\ th[t].seen[i].Kind = FileAdded
            /\ InDir(th[t].seen[i], th[t].dir)
            /\ <<Base(th[t].seen[i].Path), S_IFDIR>> \in SnapshotPairs(th[t].dir, <<>>)
            /\ ~IsDir(th[t].st2[k].Mode)
            /\ \E j \in 1..Len(th[t].out.list) :
                   /\ th[t].out.list[j].Name = Base(th[t].seen[i].Path)
                   /\ th[t].out.list[j].Mode = S_IFREG

\* C4: no change of kind Modified is in a result of ChangesInDir
C4_NoModifiedReturned ==
    \A t \in Threads :
        /\ ChangesDone(t) =>
              \A i \in 1..Len(th[t].out.changes) : th[t].out.changes[i].Kind # FileModified
        /\ \A i \in 1..Len(th[t].res) : th[t].res[i].Kind # FileModified

\* a call has answered from a cache that holds a Modified child of its
\* directory next to a returned change
C4_Witness ==
    \E t \in Threads :
        /\ ChangesDone(t)
        /\ \E i \in 1..Len(changes.items) :
              changes.items[i].Kind = FileModified /\ InDir(changes.items[i], th[t].dir)
        /\ Len(changes.items) = 2

\* the elements of a path that name something
Segs(p) == SelectSeq(Elems(p), LAMBDA e : e # <<>> /\ e # <<".">>)
\* p names a direct child of d
IsChildOf(p, d) ==
    /\ Len(Segs(p)) = Len(Segs(d)) + 1
    /\ SubSeq(Segs(p), 1, Len(Segs(d))) = Segs(d)

\* C5: every change ChangesInDir(d) returns is a direct child of d:
\* clean(dirname(path)) = clean(d), not d itself and not deeper
C5_OnlyDirectChildren ==
    \A t \in Threads : ChangesDone(t) =>
        \A i \in 1..Len(th[t].out.changes) :
            /\ Clean(Dir(th[t].out.changes[i].Path)) = Clean(th[t].dir)
            /\ IsChildOf(th[t].out.changes[i].Path, th[t].dir)

\* a call for a directory given with a trailing slash has returned a
\* change, from a cache that also holds a change of the directory itself
C5_Witness ==
    \E t \in Threads :
        /\ ChangesDone(t)
        /\ th[t].dir = <<"/", "a", "/">>
        /\ Len(th[t].out.changes) = 1
        /\ \E i \in 1..Len(changes.items) :
              changes.items[i].Path = <<"/", "a">> /\ changes.items[i].Kind # FileModified

(***************************************************************************)
(* Properties of the changes cache (SpecCache)                             *)
(***************************************************************************)
\* the last successful refresh is no older than the refresh interval
WithinInterval == now <= committed[2] + changesUpdateInterval

\* C6 as stated: once a diff has returned, whatever its body, the calls
\* made within the refresh interval issue no further diff call
C6_OneDiffWhateverReturned ==
    (lastBody # "none" /\ WithinInterval) => extraDiffs = 0

\* C6: once a diff has returned a list (an empty one included), the calls
\* made within the refresh interval issue no further diff call
C6_OneDiffAfterList ==
    (lastBody = "array" /\ WithinInterval) => extraDiffs = 0

\* two calls were answered within the interval of a refresh that returned
\* the empty list, and no other diff call was issued
C6_Witness ==
    /\ lastBody = "array"
    /\ changes = Slice(<<>>)
    /\ WithinInterval
    /\ served = 2
    /\ extraDiffs = 0

Refreshing == {t \in Threads : th[t].pc \in {"fetch", "stamp"}}
Reading    == {t \in Threads : th[t].pc \in {"check", "filter"}}

\* C7: at most one refresh is in flight, and a call that holds the lock
\* reads the entries and the timestamp of the last completed refresh
C7_SingleFlightConsistentPair ==
    /\ Cardinality(Refreshing) <= 1
    /\ Refreshing # {} => Reading = {}
    /\ \A t \in Reading : <<changes, changesUpdated>> = committed

\* a call that waited for the lock during a refresh now reads the cache
C7_Witness ==
    \E t \in Reading :
        /\ th[t].waited
        /\ ~changes.nil
        /\ committed = <<changes, changesUpdated>>
        /\ changesUpdated > ZeroTime

\* C8: a failed refresh makes ChangesInDir return the error, leaves the
\* entries and the timestamp as they were and releases the lock
C8_FailedRefreshKeepsCache ==
    [][\A t \in Threads :
          (th[t].pc = "fetch" /\ th'[t].pc = "idle") =>
              /\ th'[t].out.errno = "ERR" /\ th'[t].out.err \in FetchErrors
              /\ th'[t].out.changes = <<>>
              /\ changes' = changes
              /\ changesUpdated' = changesUpdated
              /\ changesMutex' = 0]_vars

\* a refresh of a filled cache has failed, and another call then took the
\* lock and retries the refresh
C8_Witness ==
    \E t, u \in Threads :
        /\ th[t].pc = "idle" /\ th[t].out.errno = "ERR"
        /\ changes.items # <<>>
        /\ changesMutex = u
        /\ th[u].pc = "fetch"

(***************************************************************************)
(* Properties of the inode table (SpecInode)                               *)
(***************************************************************************)
\* C9: every path handed to the kernel has one number, two paths never
\* share one, the root alone has number 1, and no number is reassigned
C9_InodeTableStableInjective ==
    /\ [](/\ \A x, y \in issued : (x[1] = y[1]) <=> (x[2] = y[2])
          /\ \A p, q \in DOMAIN inodes : inodes[p] = inodes[q] => p = q
          /\ Root \in DOMAIN inodes /\ inodes[Root] = RootIno
          /\ \A x \in issued : (x[2] = RootIno) <=> (x[1] = Root)
          /\ \A p \in DOMAIN inodes : inodes[p] < nextIno)
    /\ [][/\ issued \subseteq issued'
          /\ \A p \in DOMAIN inodes : p \in DOMAIN inodes' /\ inodes'[p] = inodes[p]]_vars

\* the <<cleaned path, number>> pairs thread t's handler returned
Returned(t) ==
    IF th[t].pc # "idle" \/ th[t].out.errno # "OK" THEN {}
    ELSE IF th[t].op \in {"Lookup", "Create"}
         THEN {<<Clean(th[t].out.node.path), th[t].out.node.ino>>}
         ELSE {<<Clean(Join(th[t].dir, th[t].out.list[j].Name)), th[t].out.list[j].Ino>> :
                  j \in 1..Len(th[t].out.list)}

\* Lookup, Create and Readdir have all returned a number for one path
C9_Witness ==
    \E p \in {x[1] : x \in issued} :
        /\ \E t \in Threads : th[t].op = "Readdir" /\ p \in {x[1] : x \in Returned(t)}
        /\ \E t \in Threads : th[t].op = "Lookup" /\ p \in {x[1] : x \in Returned(t)}
        /\ Cardinality(issued) >= 2

\* C10: handlers that run concurrently on one path return the same number,
\* and each path handed out has consumed one number of the allocator
C10_ConcurrentSameInode ==
    /\ \A t, u \in Threads : \A x \in Returned(t), y \in Returned(u) :
          x[1] = y[1] => x[2] = y[2]
    /\ nextIno = RootIno + 1 + Cardinality({x[1] : x \in issued} \ {Root})

\* a Lookup and a Lookup or Create that both began while the path was
\* unseen have returned its number
C10_Witness ==
    \E t, u \in Threads :
        /\ t # u
        /\ th[t].op = "Lookup" /\ th[u].op \in {"Lookup", "Create"}
        /\ th[t].unseen /\ th[u].unseen
        /\ Returned(t) # {} /\ Returned(t) = Returned(u)

(***************************************************************************)
(* Properties of the nodes (SpecNode)                                      *)
(***************************************************************************)
\* syscall.S_IFMT = 0170000: the bits of a mode that give the file type
S_IFMT == 12..15

\* C11: Getattr on the node of a successful Lookup reports a mode whose type
\* bits are the type Lookup chose; for a directory node it reports
\* 0755 | S_IFDIR with the uid and gid of the mount process
C11_GetattrTypeMatchesLookup ==
    attrOut.node # NoNode =>
        /\ BitAnd(attrOut.Mode, S_IFMT) = attrOut.node.mode
        /\ attrOut.Mode = Perm0755 \cup S_IFDIR
        /\ attrOut.Uid = MngUid /\ attrOut.Gid = MngGid

\* C12: Create returns EEXIST when its probe Lookup succeeds, the probe's
\* errno (EIO) when the probe fails otherwise, and a writable file node
\* only when the probe says ENOENT; no step of Create uploads anything
C12_CreateProbeNoUpload ==
    [][\A t \in Threads : (th[t].op = "Create" /\ th[t].pc # "idle" /\ th'[t] # th[t]) =>
          /\ uploaded' = uploaded
          /\ th[t].pc = "lk_ino" =>
                /\ th'[t].pc = "idle"
                /\ th'[t].out.errno = "EEXIST"
                /\ th'[t].out.node = NoNode
          /\ (th[t].pc = "lk_stat" /\ th'[t].pc = "idle") =>
                /\ th'[t].out.errno = "EIO"
                /\ th'[t].out.node = NoNode
          /\ (th[t].pc = "lk_stat" /\ th'[t].pc = "cr_ino") => th'[t].out = NoOut
          /\ th[t].pc = "cr_ino" =>
                /\ th'[t].pc = "idle"
                /\ th'[t].out.errno = "OK"
                /\ th'[t].out.node.kind = "file"
                /\ th'[t].out.node.write
                /\ th'[t].out.node.path = Join(th[t].dir, th[t].name)
          /\ th'[t].out.node # NoNode => th[t].pc = "cr_ino"]_vars

\* a Create has returned EEXIST for a path Lookup had already returned,
\* and nothing was uploaded
C12_Witness ==
    \E t \in Threads :
        /\ th[t].op = "Create" /\ th[t].pc = "idle"
        /\ th[t].out.errno = "EEXIST"
        /\ ~th[t].unseen
        /\ uploaded = <<>>

\* the blocks of a tar stream of one kind
BlocksOf(content, kind) == SelectSeq(content, LAMBDA b : b.blk = kind)

\* C13: SaveFile(path, B, stat) uploads, to the directory of path, a
\* complete tar stream with exactly one entry: name the base name of path,
\* size |B|, mode stat.Mode, body B, and the terminator at the end
C13_UploadIsCompleteSingleEntryTar ==
    \A i \in 1..Len(uploaded) :
        LET u == uploaded[i]
            headers == BlocksOf(u.content, "header")
            bodies  == BlocksOf(u.content, "body")
        IN  /\ Clean(u.dir) = Dir(u.args.path)
            /\ Len(headers) = 1
            /\ headers[1].Name = Base(u.args.path)
            /\ headers[1].Size = Len(u.args.data)
            /\ headers[1].Mode = u.args.mode
            /\ IF u.args.data = <<>> THEN bodies = <<>>
               ELSE Len(bodies) = 1 /\ bodies[1].bytes = u.args.data
            /\ u.content[Len(u.content)].blk = "end"

\* C14: Lookup returns ENOENT exactly when the stat answered that the path
\* does not exist and EIO for every other failure of the stat; a failed
\* Lookup returns no node and leaves the inode table, the snapshot and the
\* changes cache as they were
C14_NotFoundIsENOENT ==
    [][\A t \in Threads :
          (th[t].op = "Lookup" /\ th[t].pc = "lk_stat" /\ th'[t].pc = "idle") =>
              /\ th'[t].out.errno = "ENOENT" <=> th'[t].out.stat = "NotFound"
              /\ th'[t].out.errno = "EIO" <=> th'[t].out.stat = "Other"
              /\ th'[t].out.node = NoNode
              /\ UNCHANGED <<inodes, nextIno, issued, staticFiles, changes, changesUpdated>>]_vars

(***************************************************************************)
(* Properties of the export parser (SpecParse, SpecList)                   *)
(***************************************************************************)
\* the entries of an archive before the first one that cannot be read
WellFormedPrefix(archive) ==
    LET bad == {i \in 1..Len(archive) : archive[i].bad}
        first == IF bad = {} THEN Len(archive) + 1
                 ELSE CHOOSE i \in bad : \A j \in bad : i <= j
    IN  SubSeq(archive, 1, first - 1)

\* the snapshot path of an entry
SnapshotKey(hdr) == <<SEP>> \o Clean(hdr.Name)

\* C15: the snapshot holds every regular file and every symlink of the
\* export, symlinks with the symlink type bits, and no directory; so a
\* Readdir with no changes lists the symlinks of its directory as S_IFLNK
C15_SymlinksIndexed ==
    LET entries == WellFormedPrefix(export) IN
    /\ \A i \in 1..Len(entries) :
          /\ entries[i].Typeflag \in {TypeReg, TypeRegA, TypeSymlink}
                => SnapshotKey(entries[i]) \in DOMAIN staticFiles
          /\ (entries[i].Typeflag = TypeSymlink /\ SnapshotKey(entries[i]) \in DOMAIN staticFiles)
                => BitAnd(staticFiles[SnapshotKey(entries[i])], S_IFLNK) = S_IFLNK
          /\ entries[i].Typeflag = TypeDir
                => SnapshotKey(entries[i]) \notin DOMAIN staticFiles
    /\ \A t \in Threads : (ReaddirDone(t) /\ th[t].seen = <<>>) =>
          \A i \in 1..Len(entries) :
              (entries[i].Typeflag = TypeSymlink /\ Dir(SnapshotKey(entries[i])) = Clean(th[t].dir))
                  => \E j \in 1..Len(th[t].out.list) :
                         /\ th[t].out.list[j].Name = Base(SnapshotKey(entries[i]))
                         /\ th[t].out.list[j].Mode = S_IFLNK

\* the entries of the well-formed prefix that are regular files
RegularIn(entries) == {i \in 1..Len(entries) : entries[i].Typeflag \in {TypeReg, TypeRegA}}

\* the snapshot of an archive: the regular files of its well-formed
\* prefix, each path with the mode of its last entry
ExpectedSnapshot(archive) ==
    LET entries == WellFormedPrefix(archive)
        last(k) == CHOOSE i \in RegularIn(entries) :
                      /\ SnapshotKey(entries[i]) = k
                      /\ \A j \in RegularIn(entries) : SnapshotKey(entries[j]) = k => j <= i
    IN  [k \in {SnapshotKey(entries[i]) : i \in RegularIn(entries)} |-> entries[last(k)].Mode]

\* C19: once the export is open the parser never returns an error: at an
\* entry that cannot be read it stops and returns the entries of the
\* well-formed prefix, and an entry of an unsupported type is skipped and
\* the next one is read
C19_MalformedStopsSilently ==
    /\ [](parsed = "nil" =>
            /\ staticFiles = ExpectedSnapshot(export)
            /\ staticFiles = parseContainterContent(export))
    /\ [][parsed = "running" => parsed' \in {"running", "nil"}]_vars

\* the parser has returned from an export where a symlink comes before a
\* regular file, which is indexed, and a malformed entry comes after it
C19_Witness ==
    /\ parsed = "nil"
    /\ tr # <<>>
    /\ \E i, j \in 1..Len(export) :
          /\ i < j /\ j < Len(export)
          /\ export[i].Typeflag = TypeSymlink
          /\ ~export[j].bad /\ export[j].Typeflag = TypeReg
          /\ SnapshotKey(export[j]) \in DOMAIN staticFiles
          /\ export[j + 1].bad

(***************************************************************************)
(* Properties of the refresh test and of the stat loop (SpecCache)         *)
(***************************************************************************)
\* thread t leaves the test of line 186
Tested(t) == th[t].pc = "check" /\ th'[t].pc # "check"

\* C16 as stated: a call refreshes exactly when the cached entries are
\* empty or now >= last_refresh + interval
C16_RefreshIffEmptyOrAtInterval ==
    [][\A t \in Threads : Tested(t) =>
          (th'[t].pc = "fetch" <=>
              \/ changes.items = <<>>
              \/ now >= changesUpdated + changesUpdateInterval)]_vars

\* C16: a call refreshes, with one diff call, exactly when the cache is nil
\* (no diff has succeeded yet, or the last one returned null) or
\* now > last_refresh + interval; otherwise it issues none
C16_RefreshIffNilOrLater ==
    [][\A t \in Threads : Tested(t) =>
          /\ th'[t].pc = "fetch" <=>
                (changes.nil \/ now > changesUpdated + changesUpdateInterval)
          /\ th'[t].pc = "filter" <=>
                (~changes.nil /\ now <= changesUpdated + changesUpdateInterval)
          /\ extraDiffs' = IF th'[t].pc = "fetch" THEN Sat(extraDiffs) ELSE extraDiffs]_vars

\* a call that did not refresh reads the cache, which holds the empty list
\* of the last diff, at last_refresh + interval
C16_Witness ==
    \E t \in Threads :
        /\ th[t].pc = "filter"
        /\ served >= 1 /\ extraDiffs = 0
        /\ changes = Slice(<<>>)
        /\ now = changesUpdated + changesUpdateInterval

\* thread t returns from ChangesInDir with a result built from the cache
ReturnsResult(t) == th[t].pc = "filter" /\ th'[t].pc # "filter"

\* C17 as stated: once a refresh has succeeded, whenever a call returns a
\* result built from the cache, now - last_refresh < interval
C17_FreshAtReturn ==
    [][\A t \in Threads : (ReturnsResult(t) /\ lastBody # "none") =>
          now - changesUpdated < changesUpdateInterval]_vars

\* C17: once a refresh has succeeded, whenever a call tests the cache and
\* does not refresh, the cache is the one of the last refresh and
\* now - last_refresh <= interval
C17_FreshWhenTested ==
    [][\A t \in Threads : (Tested(t) /\ th'[t].pc = "filter") =>
          /\ lastBody # "none"
          /\ <<changes, changesUpdated>> = committed
          /\ now - changesUpdated <= changesUpdateInterval]_vars

\* a call that did not refresh is still at its stat calls when the clock
\* has passed last_refresh + interval
C17_Witness ==
    \E t \in Threads :
        /\ th[t].pc = "filter"
        /\ served >= 1 /\ extraDiffs = 0
        /\ changes.items # <<>>
        /\ now > changesUpdated + changesUpdateInterval

\* the indices of the entries of items that are added or removed direct
\* children of dir
Matching(items, dir) ==
    {i \in 1..Len(items) :
        items[i].Kind # FileModified /\ Clean(Dir(items[i].Path)) = Clean(dir)}

\* the k-th smallest element of a set of numbers
Nth(S, k) == CHOOSE i \in S : Cardinality({j \in S : j < i}) = k - 1

\* C18: a stat failure of an entry never fails ChangesInDir: the call
\* stats the matching entries and returns a nil error and, in order, every
\* matching entry whose stat succeeded with the mode that stat answered;
\* the entries whose stat failed, and only they, are left out, and the
\* cache is as it was
C18_StatFailureOmitsEntry ==
    [][\A t \in Threads : (ReturnsResult(t) /\ th[t].op = "ChangesInDir") =>
          LET m   == Matching(changes.items, th[t].dir)
              s   == th'[t].st2
              ok  == {i \in m : s[i].err = NoErr}
              res == th'[t].out.changes
          IN  /\ th'[t].out.errno = "OK" /\ th'[t].out.err = ""
              /\ changes' = changes /\ changesUpdated' = changesUpdated
              /\ DOMAIN s = m
              /\ Len(res) = Cardinality(ok)
              /\ \A k \in 1..Len(res) :
                    /\ res[k].Path = changes.items[Nth(ok, k)].Path
                    /\ res[k].Kind = changes.items[Nth(ok, k)].Kind
                    /\ res[k].mode = s[Nth(ok, k)].Mode]_vars

\* a call on a directory with two changes, where the stat of the first
\* one had failed, has returned the second one alone with its mode
C18_Witness ==
    \E t \in Threads :
        LET m == Matching(changes.items, th[t].dir) IN
        /\ ChangesDone(t)
        /\ DOMAIN th[t].st2 = m
        /\ Cardinality(m) = 2
        /\ th[t].st2[Nth(m, 1)].err # NoErr
        /\ th[t].st2[Nth(m, 2)].err = NoErr
        /\ Len(th[t].out.changes) = 1
        /\ th[t].out.changes[1].Path = changes.items[Nth(m, 2)].Path
        /\ th[t].out.changes[1].mode = th[t].st2[Nth(m, 2)].Mode
        /\ th[t].out.changes[1].mode # {}

(***************************************************************************)
(* Properties of the status file (SpecStatus)                              *)
(***************************************************************************)
\* process p has completed the writeStatus of its mount, its container
\* has not been unmounted yet and no unmount of it has been ordered
Mounted(p) == proc[p].pc \in {"init", "serving"} /\ ~proc[p].asked

\* C20: from the end of writeStatus(id, path) to the unmount of the
\* container the status file, whenever it decodes to a map, maps id to
\* abs(path), whatever the processes of other containers write
C20_StatusKeepsMountedEntry ==
    \A p \in Procs : (Mounted(p) /\ ReadStatusOf(statusFile).ok) =>
        /\ proc[p].id \in DOMAIN ReadStatusOf(statusFile).map
        /\ ReadStatusOf(statusFile).map[proc[p].id] = Abs(proc[p].path)

\* no mount process of the container of p is running: MountContainer has
\* not been called, or it has returned, or its process has exited
Ended(p) == proc[p].pc \in {"idle", "exited"}

\* C21: the status file holds an entry for a container only while the
\* container is mounted: once the mount process has ended (an error of
\* Init or fs.Mount, the server finishing, or the signal handler exiting
\* the process) the file, whenever it decodes to a map, has no entry for it
C21_NoEntryAfterMountEnded ==
    \A p \in Procs : (Ended(p) /\ ReadStatusOf(statusFile).ok) =>
        ContainerOf(p) \notin DOMAIN ReadStatusOf(statusFile).map

(***************************************************************************)
(* Readdir against Lookup (SpecInode)                                      *)
(***************************************************************************)
\* thread u has returned a node from Lookup
LookupDone(u) == th[u].op = "Lookup" /\ th[u].pc = "idle" /\ th[u].out.errno = "OK"

\* the file type of a node: a directory, a symlink, or a regular file (a
\* node made without type bits is a regular file)
NodeType(node) ==
    IF node.kind = "dir" THEN S_IFDIR
    ELSE IF node.kind = "symlink" THEN S_IFLNK ELSE S_IFREG

\* the added entries of name that the Readdir of thread t stat'ed
AddedStats(t, name) ==
    {k \in 1..Len(th[t].res) : /\ th[t].res[k].Kind = FileAdded
                                /\ Base(th[t].res[k].Path) = name
                                /\ th[t].st2[k].err = NoErr}

\* the file types the export gives the path: the ones of its own entries,
\* and a directory when an entry lies below it
ExportTypes(path) ==
    {IF export[i].Typeflag = TypeDir THEN S_IFDIR
     ELSE IF export[i].Typeflag = TypeSymlink THEN S_IFLNK ELSE S_IFREG :
        i \in {x \in 1..Len(export) : ~export[x].bad /\ SnapshotKey(export[x]) = path}}
    \cup {S_IFDIR : i \in {x \in 1..Len(export) :
                               /\ ~export[x].bad
                               /\ HasPrefix(SnapshotKey(export[x]), path \o <<SEP>>)}}

\* the Readdir of t and the Lookup of u saw one container state for the
\* child: the stats of the two handlers answered the same mode, or, for a
\* child Readdir took from the snapshot, the stat of Lookup answered the
\* type the export has
SameState(t, u) ==
    IF AddedStats(t, th[u].name) # {}
    THEN \A k \in AddedStats(t, th[u].name) : th[t].st2[k].Mode = th[u].mode
    ELSE TypeBits(th[u].mode) \in ExportTypes(Clean(PathOf(u)))

\* the entries of the listing of t for the child that u looked up
EntriesOf(t, u) ==
    {j \in 1..Len(th[t].out.list) : th[t].out.list[j].Name = th[u].name}

\* C22: Readdir and Lookup agree on every child: an entry that Readdir(d)
\* emits has the inode number of the node that Lookup(d, name) returns, and
\* for one container state its type bits are the type of that node
C22_ReaddirAgreesWithLookup ==
    \A t, u \in Threads :
        (ReaddirDone(t) /\ LookupDone(u) /\ th[t].dir = th[u].dir) =>
            \A j \in EntriesOf(t, u) :
                /\ th[t].out.list[j].Ino = th[u].out.node.ino
                /\ SameState(t, u) => th[t].out.list[j].Mode = NodeType(th[u].out.node)

====
